---- MODULE Spec2Model ----
(***************************************************************************)
(* The spread lifecycle of VwmaCrossoverStrategy (src/main.py) and the     *)
(* entry engine of SymbolManager (src/SymbolManager.py) as a state         *)
(* machine.  The host (LEAN) delivers ticks and order events serially;     *)
(* each action below is one handler invocation run to completion.          *)
(*                                                                         *)
(* Prices are integer cents, strikes integer dollars, time is counted in   *)
(* days.  A Symbol is the record [underlying, right, strike, expiry];      *)
(* str(symbol) and SymbolCache.get_symbol are inverse bijections between   *)
(* symbols and their strings, so a correlation key is the symbol record.   *)
(***************************************************************************)
EXTENDS Integers, Sequences, FiniteSets, TLC

(* ------------------------------ bounds --------------------------------- *)
\* orders the broker accepts in one run (order ids 1..MaxOrders)
MaxOrders == 6
\* the configured capacity, scaled down (the repository configures 10)
MaxTrades == 2

(* ------------------------- configuration ------------------------------- *)
max_concurrent_trades == MaxTrades
\* max_total_allocation = 0.8, as tenths
max_total_allocation_tenths == 8
\* profit_target_percentage = 0.95, as hundredths
profit_target_pct == 95
spread_width == 2
min_dte == 7
max_dte == 14
roll_days_trigger == 3
\* last_trade_date = None
NoDate == 0

Sym(u, r, k, e) == [underlying |-> u, right |-> r, strike |-> k, expiry |-> e]

\* one quoted contract of an option chain
Quote(s, b, a) == [symbol |-> s, bid_price |-> b, ask_price |-> a]

(* --------------------------- input domains ----------------------------- *)
\* the day every listed contract expires: inside the entry window on the
\* first two days of the run
ExpiryDay == 1 + min_dte + 1
SOXL(r, k) == Sym("SOXL", r, k, ExpiryDay)
SOXS(r, k) == Sym("SOXS", r, k, ExpiryDay)

\* chain snapshots a tick can carry, per manager (sequences: python iterates
\* the chain in order)
ChainsOf(u) ==
    IF u = "SOXL"
    THEN { << >>,
           \* puts 38/40/42: 40 and 42 both meet the credit bar, 40 is the lowest
           << Quote(SOXL("P", 42), 260, 270), Quote(SOXL("P", 40), 130, 140),
              Quote(SOXL("P", 38), 10, 20) >>,
           \* calls 38/40 and no put credit: the debit search decides
           << Quote(SOXL("C", 38), 170, 180), Quote(SOXL("C", 40), 100, 110),
              Quote(SOXL("P", 40), 50, 60), Quote(SOXL("P", 38), 20, 30) >> }
    ELSE { << >>,
           << Quote(SOXS("P", 12), 150, 160), Quote(SOXS("P", 10), 30, 40) >> }

Underlyings == {"SOXL", "SOXS"}

Symbols ==
    UNION { { c[i].symbol : i \in DOMAIN c } : c \in UNION { ChainsOf(u) : u \in Underlyings } }

\* underlying prices a tick can observe (dollars): both underlyings below
\* the short strikes of their chains, or both above
Prices ==
    { [u \in Underlyings |-> IF u = "SOXL" THEN 39 ELSE 11],
      [u \in Underlyings |-> IF u = "SOXL" THEN 41 ELSE 13] }

\* fill prices an order event can carry (cents)
FillPrices == {100, 120}

\* the days on which the host calls the handlers: two days inside the entry
\* window and the first day inside the roll window
Days == {1, 2, ExpiryDay - roll_days_trigger}

\* str(symbol) of an order that carries no tag
NoTag == Sym("", "", 0, 0)

\* no snapshot: the ticks of Spec draw theirs as an input of the step
NoSlice == [chain |-> << >>, price |-> 0]

(* ------------------------------- state --------------------------------- *)
VARIABLES
    open_spreads,           \* key -> [net_cost, long_leg_symbol_str]
    pending_entry_symbols,  \* set of keys
    pending_fills,          \* key -> id of the first filled leg order
    last_trade_date,        \* day, or NoDate
    orders,                 \* the broker's orders, by id
    portfolio,              \* symbol -> signed quantity held
    time,                   \* current day
    raised,                 \* TRUE once a handler raised an exception
    slice                   \* the market snapshot an entry attempt examines

vars == << open_spreads, pending_entry_symbols, pending_fills, last_trade_date,
           orders, portfolio, time, raised, slice >>

\* the algorithm's own fields, passed through the handlers
Ledger == [ open_spreads |-> open_spreads,
            pending_entry_symbols |-> pending_entry_symbols,
            pending_fills |-> pending_fills,
            last_trade_date |-> last_trade_date,
            orders |-> orders,
            raised |-> raised ]

Init ==
    /\ open_spreads = << >>
    /\ pending_entry_symbols = {}
    /\ pending_fills = << >>
    /\ last_trade_date = NoDate
    /\ orders = << >>
    /\ portfolio = [s \in Symbols |-> 0]
    /\ time = 1
    /\ raised = FALSE
    /\ slice = NoSlice

(* ------------------------- broker interface ---------------------------- *)
Direction(o) ==
    IF o.quantity > 0 THEN "BUY" ELSE IF o.quantity < 0 THEN "SELL" ELSE "HOLD"

\* limit_order / market_order: a zero quantity fails the pre-order check and
\* creates no order.  attempt is the id of the first order of the entry
\* submission the order belongs to (0 for closing orders).
SubmitOrder(ords, type, symbol, quantity, price, tag, attempt) ==
    IF quantity = 0 THEN ords
    ELSE Append(ords, [ type |-> type, symbol |-> symbol, quantity |-> quantity,
                        price |-> price, tag |-> tag, status |-> "open",
                        attempt |-> attempt ])

\* transactions.cancel_open_orders(symbol): every resting order on the symbol
\* is asked to cancel; its CANCELED event is delivered later
CancelOpenOrders(ords, symbol) ==
    [ i \in DOMAIN ords |->
        IF ords[i].symbol = symbol /\ ords[i].status = "open"
        THEN [ords[i] EXCEPT !.status = "cancelreq"]
        ELSE ords[i] ]

Invested(hold, symbol) == hold[symbol] # 0

Drop(f, k) == [ x \in DOMAIN f \ {k} |-> f[x] ]

Put(f, k, v) == [ x \in DOMAIN f \cup {k} |-> IF x = k THEN v ELSE f[x] ]

(* --------------------------- exit controller --------------------------- *)
\* round(n / d, 0): nearest integer, ties to even
RoundDiv(n, d) ==
    LET q == n \div d
        r == n % d
    IN IF 2 * r < d THEN q
       ELSE IF 2 * r > d THEN q + 1
       ELSE IF q % 2 = 0 THEN q ELSE q + 1

\* nearest integer to n / d, a half taken up
RoundHalfUp(n, d) == (2 * n + d) \div (2 * d)

\* line 189 with the halves rounded to even
ProfitTargetDebitHalfEven(net_credit) ==
    LET t == RoundDiv(net_credit * (100 - profit_target_pct), 100)
    IN IF t < 1 THEN 1 ELSE t

\* round(net_credit * (1 - profit_target_percentage), 2), floored at 0.01.
\* The factor 1 - 0.95 is the double 0.05000000000000004, so a product that
\* is half a cent in decimal lies above the half as a float and round(, 2)
\* takes it up (for fill prices up to 4.00, the range of this development).
ProfitTargetDebit(net_credit) ==
    LET t == RoundHalfUp(net_credit * (100 - profit_target_pct), 100)
    IN IF t < 1 THEN 1 ELSE t

\* line 197 with the whole width taken as max_profit
TargetCreditFullWidth(net_cost) ==
    RoundDiv(100 * net_cost + spread_width * 100 * profit_target_pct, 100)

\* round(net_cost + (spread_width - net_cost) * profit_target_percentage, 2).
\* A target half-way between two cents is rounded by the binary value of the
\* float; the fills of call spreads are drawn so that no target is a half.
TargetCredit(net_cost) ==
    RoundDiv(100 * net_cost + (spread_width * 100 - net_cost) * profit_target_pct, 100)

liquidate_spread(st, hold, short_leg_symbol) ==
    LET key == short_leg_symbol
        o1 == IF key \in DOMAIN st.open_spreads
              THEN LET long_leg_symbol == st.open_spreads[key].long_leg_symbol_str
                       a == IF Invested(hold, short_leg_symbol)
                            THEN SubmitOrder(st.orders, "market", short_leg_symbol,
                                             -hold[short_leg_symbol], 0, key, 0)
                            ELSE st.orders
                   IN IF Invested(hold, long_leg_symbol)
                      THEN SubmitOrder(a, "market", long_leg_symbol,
                                       -hold[long_leg_symbol], 0, key, 0)
                      ELSE a
              ELSE st.orders
        o2 == IF key \in st.pending_entry_symbols
              THEN CancelOpenOrders(o1, short_leg_symbol)
              ELSE o1
    IN [st EXCEPT !.orders = o2]

set_spread_profit_taker(st, hold, key) ==
    IF key \notin DOMAIN st.open_spreads THEN st
    ELSE LET trade_data == st.open_spreads[key]
             long_leg_symbol == trade_data.long_leg_symbol_str
             net_cost == trade_data.net_cost
             target == IF net_cost < 0 THEN ProfitTargetDebit(-net_cost)
                       ELSE TargetCredit(net_cost)
             a == SubmitOrder(st.orders, "limit", key, -hold[key], target, key, 0)
             b == SubmitOrder(a, "limit", long_leg_symbol, -hold[long_leg_symbol],
                              1, key, 0)
         IN [st EXCEPT !.orders = b]

handle_spread_exit_fill(st, hold, key) ==
    IF key \notin DOMAIN st.open_spreads THEN st
    ELSE LET long_leg_symbol == st.open_spreads[key].long_leg_symbol_str
         IN IF ~Invested(hold, key) /\ ~Invested(hold, long_leg_symbol)
            THEN [st EXCEPT !.open_spreads = Drop(@, key),
                            !.orders = CancelOpenOrders(CancelOpenOrders(@, key),
                                                        long_leg_symbol)]
            ELSE st

(* ---------------------------- fill reconciler -------------------------- *)
\* line 171: set.remove raises KeyError when the element is missing
RemovePending(st, key) ==
    IF key \in st.pending_entry_symbols
    THEN [st EXCEPT !.pending_entry_symbols = @ \ {key}]
    ELSE [st EXCEPT !.raised = TRUE]

\* lines 146 and 157: the sell-direction leg of the pair is the short leg
ShortOrderByArrival(order, first_leg_order) == first_leg_order

ShortOrder(order, first_leg_order) ==
    IF Direction(order) = "SELL" THEN order ELSE first_leg_order

\* lines 145 and 158: the buy-direction leg of the pair is the long leg
LongOrder(order, first_leg_order) ==
    IF Direction(order) = "BUY" THEN order ELSE first_leg_order

\* the order object `order` is st.orders[id]; pending_fills keeps the id of
\* the first filled leg
handle_spread_entry_fill(st, hold, now, id) ==
    LET order == st.orders[id]
        key == order.tag
    IN IF key \in DOMAIN st.pending_fills
       THEN LET first_leg_order == st.orders[st.pending_fills[key]]
                popped == [st EXCEPT !.pending_fills = Drop(@, key)]
                is_call_spread == first_leg_order.symbol.right = "C"
            IN IF is_call_spread
               THEN LET long_order == LongOrder(order, first_leg_order)
                        short_order == ShortOrder(order, first_leg_order)
                        net_debit == long_order.price - short_order.price
                        opened == [popped EXCEPT !.open_spreads =
                                     Put(@, short_order.symbol,
                                         [ net_cost |-> net_debit,
                                           long_leg_symbol_str |-> long_order.symbol ])]
                        removed == RemovePending(opened, key)
                        stamped == [removed EXCEPT !.last_trade_date = now]
                    IN set_spread_profit_taker(stamped, hold, short_order.symbol)
               ELSE LET short_order == ShortOrder(order, first_leg_order)
                        long_order == LongOrder(order, first_leg_order)
                        net_credit == short_order.price - long_order.price
                    IN IF net_credit <= 0
                       THEN liquidate_spread(popped, hold, short_order.symbol)
                       ELSE LET opened == [popped EXCEPT !.open_spreads =
                                             Put(@, short_order.symbol,
                                                 [ net_cost |-> -net_credit,
                                                   long_leg_symbol_str |-> long_order.symbol ])]
                                removed == RemovePending(opened, key)
                                stamped == [removed EXCEPT !.last_trade_date = now]
                            IN set_spread_profit_taker(stamped, hold, short_order.symbol)
       ELSE [st EXCEPT !.pending_fills = Put(@, key, id)]

\* lines 117-118, had the membership test been left out
DiscardPendingUnguarded(st, key) == RemovePending(st, key)

\* lines 117-118: remove the key if it is there
DiscardPending(st, key) ==
    IF key \in st.pending_entry_symbols
    THEN [st EXCEPT !.pending_entry_symbols = @ \ {key}]
    ELSE st

\* lines 119-120, had they been left out
DiscardPendingFillSkipped(st, key) == st

\* lines 119-120: forget the recorded first leg if there is one
DiscardPendingFill(st, key) ==
    IF key \in DOMAIN st.pending_fills
    THEN [st EXCEPT !.pending_fills = Drop(@, key)]
    ELSE st

\* line 125 answering yes for every key
IsEntryOrderAlways(st, key) == TRUE

\* line 125
IsEntryOrder(st, key) == key \in st.pending_entry_symbols

\* line 126
IsExitOrder(st, key) == key \in DOMAIN st.open_spreads

\* status is the event's status; the order's own status, price and the
\* holdings were updated by the host before the handler is called
on_order_event(st, hold, now, id, status) ==
    IF id \notin DOMAIN st.orders THEN st
    ELSE LET order == st.orders[id]
             key == order.tag
         IN IF key = NoTag THEN st
            ELSE IF status \in {"CANCELED", "INVALID"}
                 THEN DiscardPendingFill(DiscardPending(st, key), key)
            ELSE IF status # "FILLED" THEN st
            ELSE IF IsEntryOrder(st, key)
                 THEN handle_spread_entry_fill(st, hold, now, id)
            ELSE IF IsExitOrder(st, key)
                 THEN handle_spread_exit_fill(st, hold, key)
            ELSE st

(* ------------------------- prices as python floats -------------------- *)
\* Quotes reach the search as python floats: a price of x cents is the double
\* nearest to x/100, and a difference of two prices is the rounded difference
\* of the two doubles.  Only the comparison of such a difference with 1.0
\* (spread_width * 0.5) can tell it from the exact difference.

\* 2^k modulo 100
RECURSIVE Pow2Mod100(_)
Pow2Mod100(k) == IF k = 0 THEN 1 ELSE (2 * Pow2Mod100(k - 1)) % 100

\* the binary exponent e of x/100: 2^e <= x/100 < 2^(e+1), for x >= 1 cent
BinaryExponent(x) ==
    CHOOSE e \in -7 .. 6 :
        IF e >= 0 THEN 100 * 2^e <= x /\ x < 100 * 2^(e + 1)
        ELSE 100 <= x * 2^(-e) /\ x * 2^(-e) < 200

\* float(x/100) - x/100 in units of 2^-60 / 100: the double has 53 bits, so
\* it is the multiple of 2^-k nearest to x/100, k = 52 - e
FloatError(x) ==
    IF x = 0 THEN 0
    ELSE LET e == BinaryExponent(x)
             k == 52 - e
             r == ((x % 100) * Pow2Mod100(k)) % 100
         IN (IF r <= 50 THEN -r ELSE 100 - r) * 2^(8 + e)

\* b - a >= 1.0 on floats, b and a in cents: the exact difference of the two
\* doubles is rounded to nearest (below 1.0 the doubles are 2^-53 apart, and a
\* tie goes to 1.0)
FloatDiffAtLeastOne(b, a) ==
    IF b - a # 100 THEN b - a > 100
    ELSE FloatError(b) - FloatError(a) >= -(100 * 2^6)

\* a - b <= 1.0 on floats (above 1.0 the doubles are 2^-52 apart)
FloatDiffAtMostOne(a, b) ==
    IF a - b # 100 THEN a - b < 100
    ELSE FloatError(a) - FloatError(b) <= 100 * 2^7

(* ------------------------ spread candidate search ---------------------- *)
Min(S) == CHOOSE x \in S : \A y \in S : x <= y

Max(S) == CHOOSE x \in S : \A y \in S : x >= y

\* option.set_filter(... expiration(min_dte, max_dte)): the chain a tick
\* carries holds only the contracts inside the expiry window
FilterChain(chain, now) ==
    LET InWindow(c) == /\ c.symbol.expiry - now >= min_dte
                       /\ c.symbol.expiry - now <= max_dte
    IN SelectSeq(chain, InWindow)

\* long_leg_candidates of the leg at index i among the indexes `pool`
LongLegCandidates(chain, pool, i) ==
    { j \in pool : /\ chain[j].symbol.strike = chain[i].symbol.strike - spread_width
                   /\ chain[j].symbol.expiry = chain[i].symbol.expiry }

\* a candidate or None, as a sequence of at most one [short, long] pair;
\* target_credit = spread_width * 0.5 is the float 1.0
find_best_bull_put_spread(chain) ==
    LET puts == { i \in DOMAIN chain : chain[i].symbol.right = "P" }
        Accepted(i) ==
            /\ chain[i].bid_price > 0
            /\ LongLegCandidates(chain, puts, i) # {}
            /\ LET long_leg == chain[Min(LongLegCandidates(chain, puts, i))]
               IN /\ long_leg.ask_price > 0
                  /\ FloatDiffAtLeastOne(chain[i].bid_price, long_leg.ask_price)
        candidate_spreads == { i \in puts : Accepted(i) }
    IN IF candidate_spreads = {} THEN << >>
       ELSE LET lowest == Min({ chain[i].symbol.strike : i \in candidate_spreads })
                i == Min({ c \in candidate_spreads : chain[c].symbol.strike = lowest })
            IN << [ short |-> chain[i],
                    long |-> chain[Min(LongLegCandidates(chain, puts, i))] ] >>

find_best_bull_call_spread(chain, underlying_price) ==
    LET calls == { i \in DOMAIN chain : /\ chain[i].symbol.right = "C"
                                        /\ chain[i].symbol.strike < underlying_price }
        Accepted(i) ==
            /\ chain[i].bid_price > 0
            /\ LongLegCandidates(chain, calls, i) # {}
            /\ LET long_leg == chain[Min(LongLegCandidates(chain, calls, i))]
                   net_debit == long_leg.ask_price - chain[i].bid_price
               IN /\ long_leg.ask_price > 0
                  /\ 0 < net_debit
                  /\ FloatDiffAtMostOne(long_leg.ask_price, chain[i].bid_price)
        candidate_spreads == { i \in calls : Accepted(i) }
    IN IF candidate_spreads = {} THEN << >>
       ELSE LET highest == Max({ chain[i].symbol.strike : i \in candidate_spreads })
                i == Min({ c \in candidate_spreads : chain[c].symbol.strike = highest })
            IN << [ short |-> chain[i],
                    long |-> chain[Min(LongLegCandidates(chain, calls, i))] ] >>

(* -------------------------- entry submission --------------------------- *)
\* int(total_portfolio_value * allocation / margin), allocation =
\* max_total_allocation / max_concurrent_trades
Contracts(total_portfolio_value, margin) ==
    (total_portfolio_value * max_total_allocation_tenths)
        \div (10 * max_concurrent_trades * margin)

\* line 113, had it been left out
AlreadyPendingIgnored(st, tag) == FALSE

\* line 113: the duplicate-entry check
AlreadyPending(st, tag) == tag \in st.pending_entry_symbols

execute_spread_trade(st, short_leg, long_leg, total_portfolio_value, margin) ==
    IF margin <= 0 THEN st
    ELSE LET quantity == Contracts(total_portfolio_value, margin)
             tag == short_leg.symbol
             attempt == Len(st.orders) + 1
         IN IF quantity < 1 THEN st
            ELSE IF AlreadyPending(st, tag) THEN st
            ELSE LET submitted ==
                        IF short_leg.symbol.right = "C"
                        THEN SubmitOrder(
                                 SubmitOrder(st.orders, "limit", long_leg.symbol, quantity,
                                             long_leg.ask_price, tag, attempt),
                                 "limit", short_leg.symbol, -quantity,
                                 short_leg.bid_price, tag, attempt)
                        ELSE SubmitOrder(
                                 SubmitOrder(st.orders, "limit", short_leg.symbol, -quantity,
                                             short_leg.bid_price, tag, attempt),
                                 "limit", long_leg.symbol, quantity,
                                 long_leg.ask_price, tag, attempt)
                 IN [st EXCEPT !.orders = submitted,
                               !.pending_entry_symbols = @ \cup {tag}]

\* lines 46-49 with the two branches exchanged
SelectedSpreadCallFirst(chain, underlying_price) ==
    LET best_put_spread == find_best_bull_put_spread(chain)
        best_call_spread == find_best_bull_call_spread(chain, underlying_price)
    IN IF best_call_spread # << >> THEN best_call_spread ELSE best_put_spread

\* the spread attempt_trade_entry passes to execute_spread_trade, or << >>
SelectedSpread(chain, underlying_price) ==
    LET best_put_spread == find_best_bull_put_spread(chain)
        best_call_spread == find_best_bull_call_spread(chain, underlying_price)
    IN IF best_put_spread # << >> THEN best_put_spread ELSE best_call_spread

attempt_trade_entry(st, trend_aligned, underlying_price, chain, value, margin) ==
    IF ~trend_aligned THEN st
    ELSE IF chain = << >> THEN st
    ELSE LET best == SelectedSpread(chain, underlying_price)
         IN IF best = << >> THEN st
            ELSE execute_spread_trade(st, best[1].short, best[1].long, value, margin)

(* ------------------------------ the tick ------------------------------- *)
check_roll_condition(st, hold, now, price, short_leg_symbol) ==
    LET underlying_price == price[short_leg_symbol.underlying]
        is_itm == underlying_price <= short_leg_symbol.strike
        dte == short_leg_symbol.expiry - now
    IN IF is_itm /\ dte <= roll_days_trigger
       THEN liquidate_spread(st, hold, short_leg_symbol)
       ELSE st

\* the loop of lines 80-81 over a snapshot of the open spreads
RECURSIVE RollAll(_, _, _, _, _)
RollAll(st, hold, now, price, keys) ==
    IF keys = {} THEN st
    ELSE LET k == CHOOSE x \in keys : TRUE
         IN RollAll(check_roll_condition(st, hold, now, price, k),
                    hold, now, price, keys \ {k})

\* line 85 with <= for <
HasCapacityOffByOne(st) ==
    Cardinality(DOMAIN st.open_spreads) + Cardinality(st.pending_entry_symbols)
        <= max_concurrent_trades

\* the capacity gate of line 85
HasCapacity(st) ==
    Cardinality(DOMAIN st.open_spreads) + Cardinality(st.pending_entry_symbols)
        < max_concurrent_trades

\* in is the tick's input: underlying prices, indicator readings, the chain
\* of the chosen manager and the portfolio value
execute_strategy(st, hold, now, in) ==
    LET rolled == RollAll(st, hold, now, in.price, DOMAIN st.open_spreads)
    IN IF rolled.last_trade_date = now THEN rolled
       ELSE IF ~HasCapacity(rolled) THEN rolled
       ELSE IF ~in.adx_ready_and_trending THEN rolled
       ELSE attempt_trade_entry(rolled, in.trend_aligned, in.price[in.manager],
                                FilterChain(in.chain, now),
                                in.total_portfolio_value, spread_width * 100)

(* ------------------------------ actions -------------------------------- *)
Commit(st) ==
    /\ Len(st.orders) <= MaxOrders
    /\ open_spreads' = st.open_spreads
    /\ pending_entry_symbols' = st.pending_entry_symbols
    /\ pending_fills' = st.pending_fills
    /\ last_trade_date' = st.last_trade_date
    /\ orders' = st.orders
    /\ raised' = st.raised

\* what one tick reads from the host: the underlying prices, the regime
\* indicators, the manager they select with its trend and chain, and the
\* portfolio value.  One input per early return, and every manager and chain
\* with the signals on.
TickInputs ==
    LET In(p, a, m, t, c, v) ==
            [ price |-> p, adx_ready_and_trending |-> a, manager |-> m,
              trend_aligned |-> t, chain |-> c, total_portfolio_value |-> v ]
        SoxlPuts == CHOOSE c \in ChainsOf("SOXL") : c # << >> /\ c[1].symbol.right = "P"
    IN UNION { { In(p, FALSE, "SOXL", TRUE, SoxlPuts, 800),
                 In(p, TRUE, "SOXL", FALSE, SoxlPuts, 800),
                 In(p, TRUE, "SOXL", TRUE, SoxlPuts, 400) }
               \cup { In(p, TRUE, m, TRUE, c, 800) : m \in {"SOXL"}, c \in ChainsOf("SOXL") }
               \cup { In(p, TRUE, m, TRUE, c, 800) : m \in {"SOXS"}, c \in ChainsOf("SOXS") }
               : p \in Prices }

\* the algorithm's fields after the tick with input in
AfterTick(in) == execute_strategy(Ledger, portfolio, time, in)

\* the holdings after the host booked the fill of order id
HoldAfter(id) == [portfolio EXCEPT ![orders[id].symbol] = @ + orders[id].quantity]

\* the algorithm's fields after the FILLED event of order id at price p: the
\* host books the fill into the order and the holdings, then calls
\* on_order_event
AfterFill(id, p) ==
    on_order_event([Ledger EXCEPT !.orders[id].status = "filled", !.orders[id].price = p],
                   HoldAfter(id), time, id, "FILLED")

\* the algorithm's fields after the CANCELED or INVALID event of order id
AfterCancel(id, status) ==
    on_order_event([Ledger EXCEPT !.orders[id].status = "canceled"],
                   portfolio, time, id, status)

\* the events the broker can send in the current state
CanFill(id) == orders[id].status = "open"

CanCancel(id, status) ==
    \/ orders[id].status = "open"
    \/ orders[id].status = "cancelreq" /\ status = "CANCELED"

\* on_data -> execute_strategy
Tick ==
    \E in \in TickInputs :
        /\ Commit(AfterTick(in))
        /\ UNCHANGED << portfolio, time, slice >>

\* the broker fills order id at price p
Fill ==
    \E id \in DOMAIN orders, p \in FillPrices :
        /\ CanFill(id)
        /\ Commit(AfterFill(id, p))
        /\ portfolio' = HoldAfter(id)
        /\ UNCHANGED << time, slice >>

\* the broker cancels order id, or rejects it as invalid
Cancel ==
    \E id \in DOMAIN orders, status \in {"CANCELED", "INVALID"} :
        /\ CanCancel(id, status)
        /\ Commit(AfterCancel(id, status))
        /\ UNCHANGED << portfolio, time, slice >>

\* the events that report progress of an order without ending it
ProgressStatuses == {"SUBMITTED", "CANCEL_PENDING"}

CanNotify(id, status) ==
    \/ orders[id].status = "open" /\ status = "SUBMITTED"
    \/ orders[id].status = "cancelreq" /\ status = "CANCEL_PENDING"

\* the algorithm's fields after an event of order id that neither fills nor
\* ends the order
AfterNotify(id, status) == on_order_event(Ledger, portfolio, time, id, status)

\* the broker acknowledges order id, or its cancel request
Notify ==
    \E id \in DOMAIN orders, status \in ProgressStatuses :
        /\ CanNotify(id, status)
        /\ Commit(AfterNotify(id, status))
        /\ UNCHANGED << portfolio, time, slice >>

\* the clock advances between two handler invocations
NextDay ==
    \E d \in Days :
        /\ d > time
        /\ time' = d
        /\ UNCHANGED << open_spreads, pending_entry_symbols, pending_fills,
                        last_trade_date, orders, portfolio, raised, slice >>

Next == Tick \/ Fill \/ Cancel \/ Notify \/ NextDay

Spec == Init /\ [][Next]_vars

\* the portfolio value of a single attempt: one contract per spread
SearchValue == 800

(* --------------------- the two fills of one entry ---------------------- *)
\* fill prices of the legs of an entry (cents), by the right of its key: the
\* put fills give credits of 0.05, 0.10, 0.40, 0.45 and 0.50, the call fills
\* debits of 0.20, 0.60 and 0.80
PairPrices(right) == IF right = "P" THEN {70, 75, 80, 120} ELSE {80, 100, 160}

\* the spreads entered: the put spread and the call spread the searches
\* select from the SOXL chains with the underlying at 41
PairSpreads ==
    { SelectedSpread(c, 41)[1] : c \in { x \in ChainsOf("SOXL") : x # << >> } }

\* the state after execute_spread_trade submitted the legs of one spread
InitPair ==
    \E c \in PairSpreads :
        LET st == execute_spread_trade(
                      [ open_spreads |-> << >>, pending_entry_symbols |-> {},
                        pending_fills |-> << >>, last_trade_date |-> NoDate,
                        orders |-> << >>, raised |-> FALSE ],
                      c.short, c.long, SearchValue, spread_width * 100)
        IN /\ open_spreads = st.open_spreads
           /\ pending_entry_symbols = st.pending_entry_symbols
           /\ pending_fills = st.pending_fills
           /\ last_trade_date = st.last_trade_date
           /\ orders = st.orders
           /\ raised = st.raised
           /\ portfolio = [s \in Symbols |-> 0]
           /\ time = 1
           /\ slice = NoSlice

\* the broker fills order id at a price of PairPrices
PairFill ==
    \E id \in DOMAIN orders :
        \E p \in PairPrices(orders[id].tag.right) :
            /\ CanFill(id)
            /\ Commit(AfterFill(id, p))
            /\ portfolio' = HoldAfter(id)
            /\ UNCHANGED << time, slice >>

NextPair == PairFill

SpecPair == InitPair /\ [][NextPair]_vars

(* ------------------- the entry attempt on one snapshot ----------------- *)
\* a second expiry inside the entry window
OtherExpiry == ExpiryDay + 1

\* SOXL snapshots: each listed contract is absent or carries one of a few
\* quotes (bid 0 and ask 0: no quote), among them credits and debits of exactly
\* half the width
SearchChains ==
    LET Q(r, k, b, a) == << Quote(SOXL(r, k), b, a) >>
        P42 == { << >>, Q("P", 42, 230, 240), Q("P", 42, 0, 0) }
        P40 == { << >>, Q("P", 40, 113, 123), Q("P", 40, 120, 130), Q("P", 40, 90, 100) }
        P38 == { << >>, Q("P", 38, 3, 13), Q("P", 38, 10, 20), Q("P", 38, 0, 0),
                 << Quote(Sym("SOXL", "P", 38, OtherExpiry), 3, 13) >> }
        C40 == { << >>, Q("C", 40, 114, 124), Q("C", 40, 100, 110), Q("C", 40, 0, 10) }
        C38 == { << >>, Q("C", 38, 204, 214), Q("C", 38, 170, 180), Q("C", 38, 70, 80) }
        C36 == { << >>, Q("C", 36, 270, 280) }
    IN { a \o b \o c \o d \o e \o f :
           a \in P42, b \in P40, c \in P38, d \in C40, e \in C38, f \in C36 }

\* the underlying price of the snapshot (dollars)
SearchPrices == {39, 40, 41}

InitSearch ==
    /\ open_spreads = << >>
    /\ pending_entry_symbols = {}
    /\ pending_fills = << >>
    /\ last_trade_date = NoDate
    /\ orders = << >>
    /\ portfolio = [s \in Symbols |-> 0]
    /\ time = 1
    /\ raised = FALSE
    /\ slice \in [chain : SearchChains, price : SearchPrices]

\* the algorithm's fields after attempt_trade_entry on the snapshot
AfterAttempt ==
    attempt_trade_entry(Ledger, TRUE, slice.price, slice.chain, SearchValue,
                        spread_width * 100)

\* SymbolManager.attempt_trade_entry on the snapshot, trend aligned
AttemptEntry ==
    /\ Commit(AfterAttempt)
    /\ UNCHANGED << portfolio, time, slice >>

NextSearch == AttemptEntry

SpecSearch == InitSearch /\ [][NextSearch]_vars

(* ------------------------------- claims -------------------------------- *)
\* the ledger fields of a handler result
LedgerFields(st) ==
    << st.open_spreads, st.pending_entry_symbols, st.pending_fills, st.last_trade_date >>

\* the keys that hold a capacity slot
Tracked == pending_entry_symbols \cup DOMAIN open_spreads

Terminal(o) == o.status \in {"filled", "canceled"}

\* C1: the number of distinct keys that are in-flight, pending-entry or open
\* never exceeds max_concurrent_trades
C1_CapacityInvariant == Cardinality(Tracked) <= max_concurrent_trades

\* C1 witness: every slot is taken while the gate would otherwise admit a
\* further entry for a key that holds no slot
C1_Witness ==
    /\ Cardinality(Tracked) = max_concurrent_trades
    /\ last_trade_date # time
    /\ \E in \in TickInputs :
         LET sel == SelectedSpread(FilterChain(in.chain, time), in.price[in.manager])
         IN /\ in.adx_ready_and_trending
            /\ in.trend_aligned
            /\ sel # << >>
            /\ sel[1].short.symbol \notin Tracked

\* the net cost handle_spread_entry_fill stores for a short fill and a long
\* fill of a pair of the given right
NetCostOf(right, short_price, long_price) ==
    IF right = "C" THEN long_price - short_price ELSE -(short_price - long_price)

\* C2: a key is in open_spreads only if both legs of one and the same entry
\* attempt for it are FILLED, a sell on the short leg and a buy on the long
\* leg, and the stored net cost was computed from exactly those two fills
C2_AtomicityOfOpen ==
    \A k \in DOMAIN open_spreads :
        \E i, j \in DOMAIN orders :
            /\ orders[i].attempt # 0
            /\ orders[i].attempt = orders[j].attempt
            /\ orders[i].tag = k /\ orders[j].tag = k
            /\ orders[i].status = "filled" /\ orders[j].status = "filled"
            /\ orders[i].symbol = k /\ Direction(orders[i]) = "SELL"
            /\ Direction(orders[j]) = "BUY"
            /\ open_spreads[k].long_leg_symbol_str = orders[j].symbol
            /\ open_spreads[k].net_cost =
                 NetCostOf(k.right, orders[i].price, orders[j].price)

\* C3: no key is in pending_entry_symbols and in open_spreads at once
C3_LedgerMutualExclusion == pending_entry_symbols \cap DOMAIN open_spreads = {}

\* the spread a tick with input in selects, or << >>
Selected(in) == SelectedSpread(FilterChain(in.chain, time), in.price[in.manager])

\* the tick reaches execute_spread_trade with a quantity of at least one
ReachesSubmission(in) ==
    /\ last_trade_date # time
    /\ HasCapacity(Ledger)
    /\ in.adx_ready_and_trending
    /\ in.trend_aligned
    /\ Selected(in) # << >>
    /\ Contracts(in.total_portfolio_value, spread_width * 100) >= 1

\* C4: an entry attempt that selects a short leg whose key is already in
\* pending_entry_symbols submits no order and leaves the ledger as the roll
\* check left it; an attempt that submits registers the key, so that the next
\* attempt for the key is rejected
C4_NoDuplicateEntry ==
    \A in \in TickInputs :
        Selected(in) # << >> =>
            LET sel == Selected(in)[1]
                tag == sel.short.symbol
                rolled == RollAll(Ledger, portfolio, time, in.price, DOMAIN open_spreads)
                after == AfterTick(in)
            IN /\ tag \in pending_entry_symbols => after = rolled
               /\ after.orders # rolled.orders =>
                    /\ tag \in after.pending_entry_symbols
                    /\ execute_spread_trade(after, sel.short, sel.long,
                                            in.total_portfolio_value,
                                            spread_width * 100) = after

\* C4 witness: a tick passes every gate and selects a key that is pending
C4_Witness ==
    \E in \in TickInputs :
        /\ ReachesSubmission(in)
        /\ Selected(in)[1].short.symbol \in pending_entry_symbols

\* order id completes, when filled, the pair of an entry attempt whose other
\* leg is the recorded first fill: one sell and one buy of the same attempt
CompletesPair(id) ==
    LET key == orders[id].tag
    IN /\ CanFill(id)
       /\ key \in pending_entry_symbols
       /\ key \in DOMAIN pending_fills
       /\ orders[id].attempt # 0
       /\ orders[pending_fills[key]].attempt = orders[id].attempt
       /\ Direction(orders[pending_fills[key]]) # Direction(orders[id])

FirstLeg(id) == orders[pending_fills[orders[id].tag]]

SellLeg(id) == IF Direction(orders[id]) = "SELL" THEN orders[id] ELSE FirstLeg(id)

BuyLeg(id) == IF Direction(orders[id]) = "BUY" THEN orders[id] ELSE FirstLeg(id)

\* the net credit of the pair when order id fills at p
PairCredit(id, p) ==
    (IF Direction(orders[id]) = "SELL" THEN p ELSE FirstLeg(id).price)
        - (IF Direction(orders[id]) = "BUY" THEN p ELSE FirstLeg(id).price)

\* C5: when the second leg of a put-spread entry fills with net credit <= 0,
\* the key is not added to open_spreads and closing orders are issued for the
\* position the two filled legs created
C5_AdverseFillRollback ==
    \A id \in DOMAIN orders, p \in FillPrices :
        ( /\ CompletesPair(id)
          /\ orders[id].symbol.right = "P"
          /\ PairCredit(id, p) <= 0 ) =>
            LET after == AfterFill(id, p)
                hold == HoldAfter(id)
                new == { n \in DOMAIN after.orders : n > Len(orders) }
            IN /\ DOMAIN after.open_spreads = DOMAIN open_spreads
               /\ \A leg \in { SellLeg(id).symbol, BuyLeg(id).symbol } :
                    hold[leg] # 0 =>
                        \E n \in new : /\ after.orders[n].symbol = leg
                                       /\ after.orders[n].quantity = -hold[leg]

\* the entry orders tagged with key k
EntryOrders(k) == { i \in DOMAIN orders : orders[i].tag = k /\ orders[i].attempt # 0 }

\* C6: once the entry leg orders of a key have all reached a terminal status
\* the key is in neither pending_entry_symbols nor pending_fills
C6_NoLeakedSlot ==
    \A k \in pending_entry_symbols \cup DOMAIN pending_fills :
        \E i \in EntryOrders(k) : ~Terminal(orders[i])

\* the keys that hold a capacity slot in a handler result
TrackedIn(st) == st.pending_entry_symbols \cup DOMAIN st.open_spreads

\* C7: a CANCELED or INVALID event tagged with a key of pending_entry_symbols
\* removes the key from pending_entry_symbols and pending_fills in that
\* invocation, so the capacity count drops by one
C7_CancelReleasesSlot ==
    \A id \in DOMAIN orders, status \in {"CANCELED", "INVALID"} :
        ( CanCancel(id, status) /\ orders[id].tag \in pending_entry_symbols ) =>
            LET after == AfterCancel(id, status)
            IN /\ orders[id].tag \notin after.pending_entry_symbols
               /\ orders[id].tag \notin DOMAIN after.pending_fills
               /\ Cardinality(TrackedIn(after)) = Cardinality(Tracked) - 1

\* C8: a CANCELED or INVALID event for a key that is in no entry tracking set,
\* and the same event delivered a second time, leave open_spreads,
\* pending_entry_symbols, pending_fills and last_trade_date unchanged and
\* raise no error
C8_IdempotentCleanup ==
    \A id \in DOMAIN orders, status \in {"CANCELED", "INVALID"} :
        CanCancel(id, status) =>
            LET once == AfterCancel(id, status)
                twice == on_order_event(once, portfolio, time, id, status)
            IN /\ ~once.raised
               /\ ~twice.raised
               /\ LedgerFields(twice) = LedgerFields(once)
               /\ ( /\ orders[id].tag \notin pending_entry_symbols
                    /\ orders[id].tag \notin DOMAIN pending_fills )
                    => LedgerFields(once) = LedgerFields(Ledger)

\* C8 witness: the broker can cancel an order whose key was already removed,
\* and one whose key is still tracked
C8_Witness ==
    /\ \E id \in DOMAIN orders :
         /\ CanCancel(id, "CANCELED")
         /\ orders[id].tag \notin pending_entry_symbols \cup DOMAIN pending_fills
         /\ \E j \in DOMAIN orders : /\ orders[j].tag = orders[id].tag
                                     /\ orders[j].attempt = orders[id].attempt
                                     /\ orders[j].status = "canceled"
    /\ \E id \in DOMAIN orders :
         /\ CanCancel(id, "CANCELED")
         /\ orders[id].tag \in DOMAIN pending_fills

\* C9: when the sell leg and the buy leg of an entry both fill, the ledger is
\* the same whichever fill arrives first: the entry is keyed by the sell leg,
\* stores the buy leg as long leg, and its net cost is short price minus long
\* price (put, stored negated) or long price minus short price (call)
C9_RolesByDirection ==
    \A id \in DOMAIN orders, p \in FillPrices :
        CompletesPair(id) =>
            LET first == pending_fills[orders[id].tag]
                key == orders[id].tag
                filled == [Ledger EXCEPT !.orders[id].status = "filled",
                                         !.orders[id].price = p]
                after == AfterFill(id, p)
                swapped == on_order_event(
                               [filled EXCEPT !.pending_fills = Put(@, key, id)],
                               HoldAfter(id), time, first, "FILLED")
                short_price == IF Direction(orders[id]) = "SELL" THEN p
                               ELSE orders[first].price
                long_price == IF Direction(orders[id]) = "BUY" THEN p
                              ELSE orders[first].price
                right == SellLeg(id).symbol.right
            IN /\ after = swapped
               /\ IF right = "P" /\ short_price - long_price <= 0
                  THEN after.open_spreads = open_spreads
                  ELSE after.open_spreads =
                         Put(open_spreads, SellLeg(id).symbol,
                             [ net_cost |-> NetCostOf(right, short_price, long_price),
                               long_leg_symbol_str |-> BuyLeg(id).symbol ])

\* C9 witness: one entry whose buy leg filled first and one whose sell leg
\* filled first both await their second fill
C9_Witness ==
    /\ \E id \in DOMAIN orders :
         CompletesPair(id) /\ Direction(orders[id]) = "SELL"
    /\ \E id \in DOMAIN orders :
         CompletesPair(id) /\ Direction(orders[id]) = "BUY"

\* C10: on a FILLED event tagged with a key of open_spreads the entry is
\* removed, and the resting orders on both legs cancelled, if and only if both
\* legs then hold zero quantity; otherwise the entry stays
C10_ClosureDetection ==
    \A id \in DOMAIN orders, p \in FillPrices :
        ( CanFill(id) /\ orders[id].tag \in DOMAIN open_spreads ) =>
            LET key == orders[id].tag
                long_leg == open_spreads[key].long_leg_symbol_str
                hold == HoldAfter(id)
                after == AfterFill(id, p)
            IN IF hold[key] = 0 /\ hold[long_leg] = 0
               THEN /\ key \notin DOMAIN after.open_spreads
                    /\ \A n \in DOMAIN after.orders :
                         after.orders[n].symbol \in {key, long_leg}
                             => after.orders[n].status # "open"
               ELSE /\ key \in DOMAIN after.open_spreads
                    /\ \A n \in DOMAIN orders :
                         after.orders[n].status = "cancelreq"
                             => orders[n].status = "cancelreq"

\* C10 restricted to keys that are not also in pending_entry_symbols
C10_ClosureWhenNotPending ==
    \A id \in DOMAIN orders, p \in FillPrices :
        ( /\ CanFill(id)
          /\ orders[id].tag \in DOMAIN open_spreads
          /\ orders[id].tag \notin pending_entry_symbols ) =>
            LET key == orders[id].tag
                long_leg == open_spreads[key].long_leg_symbol_str
                hold == HoldAfter(id)
                after == AfterFill(id, p)
            IN IF hold[key] = 0 /\ hold[long_leg] = 0
               THEN /\ key \notin DOMAIN after.open_spreads
                    /\ \A n \in DOMAIN after.orders :
                         after.orders[n].symbol \in {key, long_leg}
                             => after.orders[n].status # "open"
               ELSE /\ key \in DOMAIN after.open_spreads
                    /\ \A n \in DOMAIN orders :
                         after.orders[n].status = "cancelreq"
                             => orders[n].status = "cancelreq"

\* C7 with the count the gate of line 85 computes
C7_GateCountDrops ==
    \A id \in DOMAIN orders, status \in {"CANCELED", "INVALID"} :
        ( CanCancel(id, status) /\ orders[id].tag \in pending_entry_symbols ) =>
            LET after == AfterCancel(id, status)
            IN /\ orders[id].tag \notin after.pending_entry_symbols
               /\ orders[id].tag \notin DOMAIN after.pending_fills
               /\ Cardinality(DOMAIN after.open_spreads)
                    + Cardinality(after.pending_entry_symbols)
                  = Cardinality(DOMAIN open_spreads)
                    + Cardinality(pending_entry_symbols) - 1

\* the closing market orders for key k that a handler result st adds to the
\* orders of the current state
NewMarketOrders(st, k) ==
    { n \in DOMAIN st.orders : /\ n > Len(orders)
                               /\ st.orders[n].type = "market"
                               /\ st.orders[n].tag = k }

\* the short leg k is in the money at the observed prices: a put when the
\* underlying is below the strike, a call when it is above
InTheMoney(k, price) ==
    IF k.right = "P" THEN price[k.underlying] < k.strike
    ELSE price[k.underlying] > k.strike

\* C11: on each tick, for every open spread, closing market orders are issued
\* exactly when the short leg is in the money (put: underlying below strike,
\* call: underlying above strike) and days to expiry <= roll_days_trigger
C11_RollTrigger ==
    \A in \in TickInputs : \A k \in DOMAIN open_spreads :
        LET rolled == RollAll(Ledger, portfolio, time, in.price, DOMAIN open_spreads)
        IN NewMarketOrders(rolled, k) # {}
             <=> ( /\ InTheMoney(k, in.price)
                   /\ k.expiry - time <= roll_days_trigger )

\* C11 for put spreads whose two legs are still held
C11_RollTriggerHeldPuts ==
    \A in \in TickInputs : \A k \in DOMAIN open_spreads :
        ( /\ k.right = "P"
          /\ Invested(portfolio, k)
          /\ Invested(portfolio, open_spreads[k].long_leg_symbol_str) ) =>
            LET rolled == RollAll(Ledger, portfolio, time, in.price, DOMAIN open_spreads)
            IN NewMarketOrders(rolled, k) # {}
                 <=> ( /\ InTheMoney(k, in.price)
                       /\ k.expiry - time <= roll_days_trigger )

\* the entry attempts that submitted orders
Attempts == { orders[i].attempt : i \in DOMAIN orders } \ {0}

\* C12: within one trading day entry leg orders are submitted for at most one
\* new spread (stated for the first day of the run, on which every order of
\* the state was submitted)
C12_OneAttemptPerDay == time = 1 => Cardinality(Attempts) <= 1

\* C17: once closing market orders for an open spread are working, a later
\* tick issues no further closing market orders for that spread
C17_RollIssuedOnce ==
    \A in \in TickInputs : \A k \in DOMAIN open_spreads :
        ( \E n \in DOMAIN orders : /\ orders[n].type = "market"
                                   /\ orders[n].tag = k
                                   /\ orders[n].status = "open" )
            => NewMarketOrders(AfterTick(in), k) = {}

\* C18: the stored net cost of every open spread is strictly negative for a
\* put pair and strictly positive for a call pair
C18_ValidStoredEconomics ==
    \A k \in DOMAIN open_spreads :
        IF k.right = "P" THEN open_spreads[k].net_cost < 0
        ELSE open_spreads[k].net_cost > 0

\* the statuses an order event can carry besides FILLED, CANCELED and INVALID
OtherStatuses ==
    {"NEW", "SUBMITTED", "PARTIALLY_FILLED", "UPDATE_SUBMITTED", "CANCEL_PENDING", "NONE"}

\* the ledger with one more order, on symbol s, that carries no tag (one not
\* placed by the algorithm's own entry and exit code)
WithUntagged(s) ==
    [Ledger EXCEPT !.orders = Append(@, [ type |-> "market", symbol |-> s,
                                          quantity |-> 1, price |-> 0, tag |-> NoTag,
                                          status |-> "open", attempt |-> 0 ])]

\* C19: an order event with an empty tag, an event whose status is none of
\* FILLED, CANCELED, INVALID, and a FILLED event whose key is in neither
\* pending_entry_symbols nor open_spreads leave the four ledger fields
\* unchanged, emit no order and cancel none
C19_IrrelevantEventsChangeNothing ==
    /\ \A s \in Symbols, status \in OtherStatuses \cup {"FILLED", "CANCELED", "INVALID"} :
         on_order_event(WithUntagged(s), portfolio, time, Len(orders) + 1, status)
             = WithUntagged(s)
    /\ \A id \in DOMAIN orders, status \in OtherStatuses :
         on_order_event(Ledger, portfolio, time, id, status) = Ledger
    /\ \A id \in DOMAIN orders, p \in FillPrices :
         ( /\ CanFill(id)
           /\ orders[id].tag \notin pending_entry_symbols
           /\ orders[id].tag \notin DOMAIN open_spreads ) =>
             AfterFill(id, p) = [Ledger EXCEPT !.orders[id].status = "filled",
                                               !.orders[id].price = p]

\* C19 witness: while another key is tracked, an entry leg can still fill
\* though its partner was cancelled and its key released
C19_Witness ==
    /\ pending_entry_symbols # {}
    /\ \E id \in DOMAIN orders :
         /\ CanFill(id)
         /\ orders[id].attempt # 0
         /\ orders[id].tag \notin Tracked
         /\ \E j \in DOMAIN orders : /\ orders[j].attempt = orders[id].attempt
                                     /\ orders[j].status = "canceled"

\* C20: each key of pending_fills is also in pending_entry_symbols
C20_FirstLegsAreTracked == DOMAIN pending_fills \subseteq pending_entry_symbols

\* C20 witness: the partner of a recorded first leg can still be rejected by
\* the broker
C20_Witness ==
    \E k \in DOMAIN pending_fills : \E id \in DOMAIN orders :
        /\ orders[id].tag = k
        /\ id # pending_fills[k]
        /\ CanCancel(id, "INVALID")

(* ------------------ claims on the profit-taker prices ------------------ *)
\* t is a nearest cent to n / 100 cents
NearestCent(t, n) == 100 * t - n <= 50 /\ n - 100 * t <= 50

\* the profit-taker orders the fill of order id at p adds: the two orders
\* tagged with key, on the short and on the long leg, in this order
TakerOrders(id, p) ==
    LET after == AfterFill(id, p)
    IN [ n \in Len(orders) + 1 .. Len(after.orders) |-> after.orders[n] ]

\* the fill of id at p adds exactly a limit order on the short leg at price
\* short_limit closing the short position and a limit order on the long leg
\* at 0.01 closing the long position, both tagged with the key
AddsProfitTaker(id, p, short_limit) ==
    LET key == SellLeg(id).symbol
        long == BuyLeg(id).symbol
        hold == HoldAfter(id)
        new == TakerOrders(id, p)
        first == Len(orders) + 1
    IN /\ DOMAIN new = first .. first + 1
       /\ new[first] = [ type |-> "limit", symbol |-> key, quantity |-> -hold[key],
                         price |-> short_limit, tag |-> key, status |-> "open",
                         attempt |-> 0 ]
       /\ new[first + 1] = [ type |-> "limit", symbol |-> long,
                             quantity |-> -hold[long], price |-> 1, tag |-> key,
                             status |-> "open", attempt |-> 0 ]
       /\ Direction(new[first]) = "BUY"
       /\ Direction(new[first + 1]) = "SELL"

\* C15: when a put pair opens with net credit C > 0, the buy-to-close limit
\* on the short leg is C * (1 - profit_target_percentage) rounded to the
\* cent and never below 0.01 (0.03 for fills 1.20 and 0.70); the long leg's
\* sell-to-close limit is 0.01; both orders carry the key as tag
C15_CreditProfitTarget ==
    \A id \in DOMAIN orders : \A p \in PairPrices(orders[id].tag.right) :
        ( /\ CompletesPair(id)
          /\ orders[id].tag.right = "P"
          /\ PairCredit(id, p) > 0 ) =>
            LET limit == TakerOrders(id, p)[Len(orders) + 1].price
                C == PairCredit(id, p)
            IN /\ AddsProfitTaker(id, p, limit)
               /\ limit >= 1
               /\ \/ NearestCent(limit, C * (100 - profit_target_pct))
                  \/ limit = 1 /\ C * (100 - profit_target_pct) <= 50
               /\ C = 50 => limit = 3

\* C15 witness: the short put filled at 1.20 and the long put can fill at
\* 0.70, a net credit of 0.50
C15_Witness ==
    \E id \in DOMAIN orders : \E p \in PairPrices("P") :
        /\ CompletesPair(id)
        /\ orders[id].tag.right = "P"
        /\ FirstLeg(id).price = 120
        /\ p = 70
        /\ PairCredit(id, p) = 50

\* C16: when a call pair opens with net debit D > 0 and width W, the
\* profit-target limit on the short leg is D + (W - D) *
\* profit_target_percentage rounded to the cent (1.94 for W = 2.00 and
\* D = 0.80)
C16_DebitProfitTarget ==
    \A id \in DOMAIN orders : \A p \in PairPrices(orders[id].tag.right) :
        ( /\ CompletesPair(id)
          /\ orders[id].tag.right = "C"
          /\ -PairCredit(id, p) > 0 ) =>
            LET limit == TakerOrders(id, p)[Len(orders) + 1].price
                D == -PairCredit(id, p)
            IN /\ AddsProfitTaker(id, p, limit)
               /\ NearestCent(limit, 100 * D + (spread_width * 100 - D) * profit_target_pct)
               /\ D = 80 => limit = 194

\* C16 witness: a call pair can open with net debit 0.80
C16_Witness ==
    \E id \in DOMAIN orders : \E p \in PairPrices("C") :
        /\ CompletesPair(id)
        /\ orders[id].tag.right = "C"
        /\ -PairCredit(id, p) = 80

(* ---------------------- claims on the entry attempt -------------------- *)
\* the long legs of the short leg at index i: same right, same expiry, strike
\* lower by the width
LongLegsOf(chain, i) ==
    { j \in DOMAIN chain : /\ chain[j].symbol.right = chain[i].symbol.right
                           /\ chain[j].symbol.expiry = chain[i].symbol.expiry
                           /\ chain[j].symbol.strike = chain[i].symbol.strike - spread_width }

\* the put pairs the claim accepts: credit of at least half the width (cents)
AcceptedPutPairs(chain) ==
    { << i, j >> \in (DOMAIN chain) \X (DOMAIN chain) :
        /\ chain[i].symbol.right = "P"
        /\ j \in LongLegsOf(chain, i)
        /\ chain[i].bid_price - chain[j].ask_price >= spread_width * 50 }

\* the call pairs the claim accepts: short strike strictly below the
\* underlying, debit positive and at most half the width
AcceptedCallPairs(chain, underlying_price) ==
    { << i, j >> \in (DOMAIN chain) \X (DOMAIN chain) :
        /\ chain[i].symbol.right = "C"
        /\ chain[i].symbol.strike < underlying_price
        /\ j \in LongLegsOf(chain, i)
        /\ 0 < chain[j].ask_price - chain[i].bid_price
        /\ chain[j].ask_price - chain[i].bid_price <= spread_width * 50 }

\* found is one of the pairs, and no pair has a short strike beyond it in
\* the direction dir (-1: lowest, 1: highest)
IsBestOf(found, chain, pairs, dir) ==
    IF pairs = {} THEN found = << >>
    ELSE /\ found # << >>
         /\ \E p \in pairs :
              /\ found[1].short = chain[p[1]]
              /\ found[1].long = chain[p[2]]
              /\ \A q \in pairs :
                   dir * chain[q[1]].symbol.strike <= dir * chain[p[1]].symbol.strike

\* C13: the credit search returns the accepted put pair with the lowest short
\* strike, the debit search the accepted call pair with the highest short
\* strike, and each returns none when no pair is accepted
C13_SearchSelection ==
    /\ IsBestOf(find_best_bull_put_spread(slice.chain), slice.chain,
                AcceptedPutPairs(slice.chain), -1)
    /\ IsBestOf(find_best_bull_call_spread(slice.chain, slice.price), slice.chain,
                AcceptedCallPairs(slice.chain, slice.price), 1)

\* the pairs whose two quotes are present
Quoted(chain, pairs) ==
    { p \in pairs : chain[p[1]].bid_price > 0 /\ chain[p[2]].ask_price > 0 }

\* C13 for snapshots in which every accepted pair is quoted on both legs
C13_SelectionWhenQuoted ==
    LET puts == AcceptedPutPairs(slice.chain)
        calls == AcceptedCallPairs(slice.chain, slice.price)
    IN ( Quoted(slice.chain, puts) = puts /\ Quoted(slice.chain, calls) = calls )
         => /\ IsBestOf(find_best_bull_put_spread(slice.chain), slice.chain, puts, -1)
            /\ IsBestOf(find_best_bull_call_spread(slice.chain, slice.price),
                        slice.chain, calls, 1)

\* the pairs whose two quotes are present and whose credit or debit is not
\* exactly half the width
QuotedOffTarget(chain, pairs) ==
    { p \in pairs : /\ chain[p[1]].bid_price > 0
                    /\ chain[p[2]].ask_price > 0
                    /\ chain[p[1]].bid_price - chain[p[2]].ask_price # spread_width * 50
                    /\ chain[p[2]].ask_price - chain[p[1]].bid_price # spread_width * 50 }

\* C13 for snapshots in which every accepted pair is quoted on both legs and
\* off the half-width boundary
C13_SelectionOffBoundary ==
    LET puts == AcceptedPutPairs(slice.chain)
        calls == AcceptedCallPairs(slice.chain, slice.price)
    IN ( /\ QuotedOffTarget(slice.chain, puts) = puts
         /\ QuotedOffTarget(slice.chain, calls) = calls )
         => /\ IsBestOf(find_best_bull_put_spread(slice.chain), slice.chain, puts, -1)
            /\ IsBestOf(find_best_bull_call_spread(slice.chain, slice.price),
                        slice.chain, calls, 1)

\* the orders the attempt on the snapshot adds
AttemptOrders ==
    LET after == AfterAttempt
    IN [ n \in Len(orders) + 1 .. Len(after.orders) |-> after.orders[n] ]

\* the attempt submits exactly the two legs of spread c, tagged with its key
SubmitsSpread(c) ==
    /\ DOMAIN AttemptOrders = Len(orders) + 1 .. Len(orders) + 2
    /\ \A n \in DOMAIN AttemptOrders : AttemptOrders[n].tag = c.short.symbol
    /\ \E n \in DOMAIN AttemptOrders : /\ AttemptOrders[n].symbol = c.short.symbol
                                        /\ Direction(AttemptOrders[n]) = "SELL"
    /\ \E n \in DOMAIN AttemptOrders : /\ AttemptOrders[n].symbol = c.long.symbol
                                        /\ Direction(AttemptOrders[n]) = "BUY"

\* C14: whenever the credit search returns a candidate it is the one passed
\* to order submission; the debit candidate is submitted only when the credit
\* search returned none; at most one spread is submitted per attempt
C14_CreditPreferred ==
    LET best_put_spread == find_best_bull_put_spread(slice.chain)
        best_call_spread == find_best_bull_call_spread(slice.chain, slice.price)
        passed == IF best_put_spread # << >> THEN best_put_spread ELSE best_call_spread
    IN IF passed = << >> \/ passed[1].short.symbol \in pending_entry_symbols
       THEN DOMAIN AttemptOrders = {}
       ELSE SubmitsSpread(passed[1])

\* C14 witness: both searches return a candidate and its key is free
C14_Witness ==
    /\ find_best_bull_put_spread(slice.chain) # << >>
    /\ find_best_bull_call_spread(slice.chain, slice.price) # << >>
    /\ pending_entry_symbols = {}

====
